---- MODULE Spec2Model ----
(***************************************************************************)
(* Roaming usage dashboard (src/app.py): workbook parsing, column          *)
(* normalisation, the country inference chain, the two mapping tables and  *)
(* the ingestion run that ties them together.                              *)
(*                                                                         *)
(* Text is modelled as a sequence of one-character strings so that strip,  *)
(* lower, upper, slicing, substring search and sorting are computed, not   *)
(* assumed.  None / NaN is the one-element sequence <<"NaN">>, which no    *)
(* text equals because its element is not a single character.             *)
(***************************************************************************)
EXTENDS Integers, Sequences, FiniteSets, TLC

\* ------------------------------------------------------------------------
\* Text primitives (Python str / re as used by src/app.py)
\* ------------------------------------------------------------------------

\* The characters of the model, in code-point order (used by sort_values).
Chars ==
    << " ", "(", ")", "-", ".",
       "0", "1", "2", "3", "4", "5", "6", "7", "8", "9",
       "A", "B", "C", "D", "E", "F", "G", "H", "I", "J", "K", "L", "M",
       "N", "O", "P", "Q", "R", "S", "T", "U", "V", "W", "X", "Y", "Z",
       "_",
       "a", "b", "c", "d", "e", "f", "g", "h", "i", "j", "k", "l", "m",
       "n", "o", "p", "q", "r", "s", "t", "u", "v", "w", "x", "y", "z" >>

UpperLetters ==
    << "A", "B", "C", "D", "E", "F", "G", "H", "I", "J", "K", "L", "M",
       "N", "O", "P", "Q", "R", "S", "T", "U", "V", "W", "X", "Y", "Z" >>

LowerLetters ==
    << "a", "b", "c", "d", "e", "f", "g", "h", "i", "j", "k", "l", "m",
       "n", "o", "p", "q", "r", "s", "t", "u", "v", "w", "x", "y", "z" >>

Digits == << "0", "1", "2", "3", "4", "5", "6", "7", "8", "9" >>

Range(f) == { f[i] : i \in DOMAIN f }

IndexOf(c, seq) == CHOOSE i \in DOMAIN seq : seq[i] = c

Ord == [ c \in Range(Chars) |-> IndexOf(c, Chars) ]

LowerChar ==
    [ c \in Range(Chars) |->
        IF c \in Range(UpperLetters) THEN LowerLetters[IndexOf(c, UpperLetters)] ELSE c ]

UpperChar ==
    [ c \in Range(Chars) |->
        IF c \in Range(LowerLetters) THEN UpperLetters[IndexOf(c, LowerLetters)] ELSE c ]

IsAlpha(c) == c \in Range(UpperLetters) \cup Range(LowerLetters)

IsDigit(c) == c \in Range(Digits)

DigitValue(c) == IndexOf(c, Digits) - 1

\* None / NaN
None == << "NaN" >>

isna(v) == v = None

\* str(v), Series.astype(str): None becomes the text "None"
astype_str(v) == IF isna(v) THEN <<"N","o","n","e">> ELSE v

\* str.lower(), str.upper()
lower(s) == [ i \in 1..Len(s) |-> LowerChar[s[i]] ]

upper(s) == [ i \in 1..Len(s) |-> UpperChar[s[i]] ]

\* str.strip(): drop leading and trailing white space
RECURSIVE lstrip(_)
lstrip(s) == IF s # << >> /\ Head(s) = " " THEN lstrip(Tail(s)) ELSE s

RECURSIVE rstrip(_)
rstrip(s) ==
    IF s # << >> /\ s[Len(s)] = " " THEN rstrip(SubSeq(s, 1, Len(s) - 1)) ELSE s

strip(s) == rstrip(lstrip(s))

\* s[:n]
Prefix(s, n) == SubSeq(s, 1, IF Len(s) < n THEN Len(s) ELSE n)

\* sub in s
Contains(sub, s) ==
    \E i \in 0..(Len(s) - Len(sub)) : SubSeq(s, i + 1, i + Len(sub)) = sub

StartsWith(s, p) == Len(p) <= Len(s) /\ SubSeq(s, 1, Len(p)) = p

\* re.sub(r"\s+", "", s)
RemoveSpaces(s) == SelectSeq(s, LAMBDA c : c # " ")

\* re.sub(r"[^A-Za-z\s]", " ", s)
NonAlphaToSpace(s) == [ i \in 1..Len(s) |-> IF IsAlpha(s[i]) THEN s[i] ELSE " " ]

\* str.split(): the maximal runs of non-space characters, in order
RECURSIVE SplitFrom(_, _)
SplitFrom(s, cur) ==
    IF s = << >>
    THEN IF cur = << >> THEN << >> ELSE << cur >>
    ELSE IF Head(s) = " "
         THEN (IF cur = << >> THEN << >> ELSE << cur >>) \o SplitFrom(Tail(s), << >>)
         ELSE SplitFrom(Tail(s), Append(cur, Head(s)))

split(s) == SplitFrom(s, << >>)

\* " ".join(words)
RECURSIVE join(_)
join(words) ==
    IF words = << >> THEN << >>
    ELSE IF Len(words) = 1 THEN words[1]
    ELSE words[1] \o << " " >> \o join(Tail(words))

\* s1 < s2 in code-point order
RECURSIVE StrLess(_, _)
StrLess(a, b) ==
    IF b = << >> THEN FALSE
    ELSE IF a = << >> THEN TRUE
    ELSE IF Head(a) = Head(b) THEN StrLess(Tail(a), Tail(b))
    ELSE Ord[Head(a)] < Ord[Head(b)]

\* ------------------------------------------------------------------------
\* Country inference helpers
\* ------------------------------------------------------------------------

\* dict.get(key) over a dict kept as a sequence of <<key, value>> items in
\* insertion order (keys unique); None when the key is missing.
dict_get(items, key) ==
    IF \E i \in DOMAIN items : items[i][1] = key
    THEN items[CHOOSE i \in DOMAIN items : items[i][1] = key][2]
    ELSE None

\* bool(v) of a value that is None or text
truthy(v) == v # None /\ v # << >>

prefix_map ==
    << << <<"A","R","G">>, <<"A","r","g","e","n","t","i","n","a">> >>,
       << <<"A","U","S">>, <<"A","u","s","t","r","a","l","i","a">> >>,
       << <<"E","S","P">>, <<"S","p","a","i","n">> >>,
       << <<"G","B","R">>, <<"U","n","i","t","e","d"," ","K","i","n","g","d","o","m">> >>,
       << <<"H","K","G">>, <<"H","o","n","g"," ","K","o","n","g">> >>,
       << <<"H","R","V">>, <<"C","r","o","a","t","i","a">> >>,
       << <<"I","N","D">>, <<"I","n","d","i","a">> >>,
       << <<"I","R","L">>, <<"I","r","e","l","a","n","d">> >>,
       << <<"I","S","R">>, <<"I","s","r","a","e","l">> >>,
       << <<"J","P","N">>, <<"J","a","p","a","n">> >>,
       << <<"K","O","R">>, <<"S","o","u","t","h"," ","K","o","r","e","a">> >>,
       << <<"K","W","T">>, <<"K","u","w","a","i","t">> >>,
       << <<"L","B","N">>, <<"L","e","b","a","n","o","n">> >>,
       << <<"L","T","U">>, <<"L","i","t","h","u","a","n","i","a">> >>,
       << <<"L","U","X">>, <<"L","u","x","e","m","b","o","u","r","g">> >>,
       << <<"M","A","C">>, <<"M","a","c","a","u">> >>,
       << <<"M","D","V">>, <<"M","a","l","d","i","v","e","s">> >>,
       << <<"M","E","X">>, <<"M","e","x","i","c","o">> >>,
       << <<"M","M","R">>, <<"M","y","a","n","m","a","r">> >>,
       << <<"M","Y","S">>, <<"M","a","l","a","y","s","i","a">> >>,
       << <<"N","O","R">>, <<"N","o","r","w","a","y">> >>,
       << <<"N","P","L">>, <<"N","e","p","a","l">> >>,
       << <<"N","Z","L">>, <<"N","e","w"," ","Z","e","a","l","a","n","d">> >>,
       << <<"O","M","N">>, <<"O","m","a","n">> >>,
       << <<"P","A","N">>, <<"P","a","n","a","m","a">> >>,
       << <<"P","O","L">>, <<"P","o","l","a","n","d">> >>,
       << <<"P","R","I">>, <<"P","u","e","r","t","o"," ","R","i","c","o">> >>,
       << <<"Q","A","T">>, <<"Q","a","t","a","r">> >>,
       << <<"R","O","M">>, <<"R","o","m","a","n","i","a">> >>,
       << <<"R","U","S">>, <<"R","u","s","s","i","a">> >>,
       << <<"S","A","U">>, <<"S","a","u","d","i"," ","A","r","a","b","i","a">> >>,
       << <<"S","V","K">>, <<"S","l","o","v","a","k","i","a">> >>,
       << <<"S","W","E">>, <<"S","w","e","d","e","n">> >>,
       << <<"T","H","A">>, <<"T","h","a","i","l","a","n","d">> >>,
       << <<"T","U","R">>, <<"T","u","r","k","e","y">> >>,
       << <<"U","S","A">>, <<"U","n","i","t","e","d"," ","S","t","a","t","e","s">> >>,
       << <<"A","A","Z">>, <<"M","a","l","t","a">> >>,
       << <<"A","F","G">>, <<"A","f","g","h","a","n","i","s","t","a","n">> >>,
       << <<"A","L","B">>, <<"A","l","b","a","n","i","a">> >>,
       << <<"A","U","T">>, <<"A","u","s","t","r","i","a">> >>,
       << <<"B","E","L">>, <<"B","e","l","g","i","u","m">> >>,
       << <<"B","G","D">>, <<"B","a","n","g","l","a","d","e","s","h">> >>,
       << <<"B","G","R">>, <<"B","u","l","g","a","r","i","a">> >>,
       << <<"B","R","A">>, <<"B","r","a","z","i","l">> >>,
       << <<"C","A","N">>, <<"C","a","n","a","d","a">> >>,
       << <<"C","H","E">>, <<"S","w","i","t","z","e","r","l","a","n","d">> >>,
       << <<"C","H","N">>, <<"C","h","i","n","a">> >>,
       << <<"C","Z","E">>, <<"C","z","e","c","h"," ","R","e","p","u","b","l","i","c">> >>,
       << <<"D","E","U">>, <<"G","e","r","m","a","n","y">> >>,
       << <<"D","N","K">>, <<"D","e","n","m","a","r","k">> >>,
       << <<"E","G","Y">>, <<"E","g","y","p","t">> >>,
       << <<"E","S","T">>, <<"E","s","t","o","n","i","a">> >>,
       << <<"F","I","N">>, <<"F","i","n","l","a","n","d">> >>,
       << <<"F","R","A">>, <<"F","r","a","n","c","e">> >>,
       << <<"G","H","A">>, <<"G","h","a","n","a">> >>,
       << <<"G","R","C">>, <<"G","r","e","e","c","e">> >>,
       << <<"H","U","N">>, <<"H","u","n","g","a","r","y">> >>,
       << <<"I","D","N">>, <<"I","n","d","o","n","e","s","i","a">> >>,
       << <<"I","T","A">>, <<"I","t","a","l","y">> >>,
       << <<"L","K","A">>, <<"S","r","i"," ","L","a","n","k","a">> >>,
       << <<"N","L","D">>, <<"N","e","t","h","e","r","l","a","n","d","s">> >>,
       << <<"P","A","K">>, <<"P","a","k","i","s","t","a","n">> >>,
       << <<"P","H","L">>, <<"P","h","i","l","i","p","p","i","n","e","s">> >>,
       << <<"P","R","T">>, <<"P","o","r","t","u","g","a","l">> >>,
       << <<"S","G","P">>, <<"S","i","n","g","a","p","o","r","e">> >>,
       << <<"Z","A","F">>, <<"S","o","u","t","h"," ","A","f","r","i","c","a">> >>,
       << <<"L","V","A">>, <<"L","a","t","v","i","a">> >>,
       << <<"B","M","U">>, <<"B","e","r","m","u","d","a">> >> >>

infer_country_from_network_id(network_id) ==
    IF isna(network_id) THEN None
    ELSE LET nid == upper(strip(network_id))
             prefix == Prefix(nid, 3)
         IN  dict_get(prefix_map, prefix)

rules ==
    << << <<"r","e","l","i","a","n","c","e"," ","j","i","o">>, <<"I","n","d","i","a">> >>,
       << <<"j","i","o"," ","i","n","f","o","c","o","m","m">>, <<"I","n","d","i","a">> >>,
       << <<"b","h","a","r","t","i"," ","a","i","r","t","e","l">>, <<"I","n","d","i","a">> >>,
       << <<"a","i","r","t","e","l">>, <<"I","n","d","i","a">> >>,
       << <<"v","o","d","a","f","o","n","e"," ","e","s","s","a","r">>, <<"I","n","d","i","a">> >>,
       << <<"m","t","n","l">>, <<"I","n","d","i","a">> >>,
       << <<"m","a","h","a","n","a","g","a","r"," ","t","e","l","e","p","h","o","n","e"," ","n","i","g","a","m">>, <<"I","n","d","i","a">> >>,
       << <<"t","e","l","e","2"," ","l","a","t","v","i","a">>, <<"L","a","t","v","i","a">> >>,
       << <<"t","e","l","e"," ","2"," ","l","a","t","v","i","a">>, <<"L","a","t","v","i","a">> >>,
       << <<"b","e","r","m","u","d","a">>, <<"B","e","r","m","u","d","a">> >> >>

\* for k, v in rules.items(): if k in name: return v
RECURSIVE FirstRule(_, _)
FirstRule(items, name) ==
    IF items = << >> THEN None
    ELSE IF Contains(Head(items)[1], name) THEN Head(items)[2]
    ELSE FirstRule(Tail(items), name)

infer_country_from_partner(partner_name) ==
    IF isna(partner_name) THEN None
    ELSE LET name == lower(strip(partner_name))
         IN  FirstRule(rules, name)

\* pycountry.countries.lookup(value): case-insensitive search of the country
\* database; the model's database holds these names.  The country's .name,
\* or None where the library raises LookupError.
countries ==
    << <<"B","e","r","m","u","d","a">>,
       <<"H","o","n","g"," ","K","o","n","g">>,
       <<"I","n","d","i","a">>,
       <<"L","a","t","v","i","a">>,
       <<"M","a","l","t","a">>,
       <<"S","p","a","i","n">>,
       <<"U","n","i","t","e","d"," ","K","i","n","g","d","o","m">> >>

countries_lookup(value) ==
    IF \E i \in DOMAIN countries : lower(countries[i]) = lower(value)
    THEN countries[CHOOSE i \in DOMAIN countries : lower(countries[i]) = lower(value)]
    ELSE None

\* The phrases tried, in order: for n in [4, 3, 2, 1], for i in range(...)
PhrasesOfLength(words, n) ==
    [ i \in 1..(IF Len(words) - n + 1 > 0 THEN Len(words) - n + 1 ELSE 0) |->
        join(SubSeq(words, i, i + n - 1)) ]

RECURSIVE FirstLookup(_)
FirstLookup(phrases) ==
    IF phrases = << >> THEN None
    ELSE IF countries_lookup(Head(phrases)) # None THEN countries_lookup(Head(phrases))
    ELSE FirstLookup(Tail(phrases))

detect_country_from_partner_text(partner_name) ==
    IF isna(partner_name) THEN None
    ELSE LET txt == strip(NonAlphaToSpace(partner_name))
         IN  IF txt = << >> THEN None
             ELSE LET words == SelectSeq(split(txt), LAMBDA w : Len(w) >= 4)
                  IN  FirstLookup(PhrasesOfLength(words, 4) \o PhrasesOfLength(words, 3)
                                  \o PhrasesOfLength(words, 2) \o PhrasesOfLength(words, 1))

\* ------------------------------------------------------------------------
\* The inference chain
\* ------------------------------------------------------------------------

\* dict(zip(partner_map["Partner Name"].str.lower(), partner_map["Country"])):
\* a later row replaces an earlier one with the same lower-cased name.
pm_dict_of(partner_map) ==
    [ k \in { lower(partner_map[i].Partner_Name) : i \in DOMAIN partner_map } |->
        LET last == CHOOSE i \in DOMAIN partner_map :
                        /\ lower(partner_map[i].Partner_Name) = k
                        /\ \A j \in DOMAIN partner_map :
                               lower(partner_map[j].Partner_Name) = k => j <= i
        IN  partner_map[last].Country ]

\* pm_dict.get(key, "")
pm_get(pm_dict, key) == IF key \in DOMAIN pm_dict THEN pm_dict[key] ELSE << >>

\* infer_chain with the look-ups it makes on the way: ret is the value
\* returned, calls the stages consulted before returning.  The stage results
\* c_pm, c2, c3 and c4 are read only on the branch that computes them.
chain_NoShortCircuit(c, pname, c_pm, c2, c3, c4) ==
    IF c_pm # << >>
    THEN [ ret |-> c_pm, calls |-> { "partner_table" } ]
    ELSE IF ~isna(c) /\ strip(c) # << >>
    THEN [ ret |-> strip(c), calls |-> { "partner_table" } ]
    ELSE IF truthy(c2)
    THEN [ ret |-> c2, calls |-> { "partner_table", "rules" } ]
    ELSE IF truthy(c3)
    THEN [ ret |-> c3, calls |-> { "partner_table", "rules", "fuzzy" } ]
    ELSE [ ret |-> c4, calls |-> { "partner_table", "rules", "fuzzy", "prefix" } ]

chain_PrefixBeforePartnerText(c, pname, c_pm, c2, c3, c4) ==
    IF ~isna(c) /\ strip(c) # << >>
    THEN [ ret |-> strip(c), calls |-> { } ]
    ELSE IF c_pm # << >>
    THEN [ ret |-> c_pm, calls |-> { "partner_table" } ]
    ELSE IF truthy(c2)
    THEN [ ret |-> c2, calls |-> { "partner_table", "rules" } ]
    ELSE IF truthy(c4)
    THEN [ ret |-> c4, calls |-> { "partner_table", "rules", "prefix" } ]
    ELSE [ ret |-> c3, calls |-> { "partner_table", "rules", "prefix", "fuzzy" } ]

chain(c, pname, c_pm, c2, c3, c4) ==
    IF ~isna(c) /\ strip(c) # << >>
    THEN [ ret |-> strip(c), calls |-> { } ]
    ELSE IF c_pm # << >>
    THEN [ ret |-> c_pm, calls |-> { "partner_table" } ]
    ELSE IF truthy(c2)
    THEN [ ret |-> c2,
           calls |-> (IF pname # << >> THEN { "partner_table" } ELSE { }) \cup { "rules" } ]
    ELSE IF truthy(c3)
    THEN [ ret |-> c3,
           calls |-> (IF pname # << >> THEN { "partner_table" } ELSE { })
                     \cup { "rules", "fuzzy" } ]
    ELSE [ ret |-> c4,
           calls |-> (IF pname # << >> THEN { "partner_table" } ELSE { })
                     \cup { "rules", "fuzzy", "prefix" } ]

\* if pname: c_pm = pm_dict.get(pname.lower(), "")
c_pm_of(pname, pm_dict) == IF pname # << >> THEN pm_get(pm_dict, lower(pname)) ELSE << >>

chain_from(c, pname, nid, pm_dict) ==
    chain(c, pname, c_pm_of(pname, pm_dict), infer_country_from_partner(pname),
          detect_country_from_partner_text(pname), infer_country_from_network_id(nid))

infer_chain(row, pm_dict) ==
    chain_from(row.Country, strip(astype_str(row.Partner_Name)),
               strip(astype_str(row.Network_ID)), pm_dict)

\* Lines 467-469: None -> "", strip, "none"/"nan" -> ""
normalize_inferred(v) ==
    LET s == IF isna(v) THEN << >> ELSE strip(v)
    IN  IF lower(s) \in { <<"n","o","n","e">>, <<"n","a","n">> } THEN << >> ELSE s

\* Lines 465-469 for one row: infer_chain, then the clean-up of its result.
with_Country_inferred(r) ==
    [ ret |-> r.ret, calls |-> r.calls, Country_inferred |-> normalize_inferred(r.ret) ]

resolve_row(row, pm_dict) == with_Country_inferred(infer_chain(row, pm_dict))

\* ------------------------------------------------------------------------
\* Mapping tables: load and merge
\* ------------------------------------------------------------------------

\* Series.str.lower().isin(["none", "nan"])
IsNoneOrNan(s) == lower(s) \in { <<"n","o","n","e">>, <<"n","a","n">> }

\* A column of a frame, as the sequence of its values
Network_ID(rows) == [ i \in DOMAIN rows |-> rows[i].Network_ID ]

Partner_Name(rows) == [ i \in DOMAIN rows |-> rows[i].Partner_Name ]

\* The rows of a frame at the positions 'keep', in order
TakeRows(rows, keep) ==
    LET F[i \in 0..Len(rows)] ==
            IF i = 0 THEN << >>
            ELSE IF i \in keep THEN Append(F[i - 1], rows[i]) ELSE F[i - 1]
    IN  F[Len(rows)]

\* DataFrame.drop_duplicates(subset=[column], keep="last"); keys is the column
drop_duplicates_last(rows, keys) ==
    TakeRows(rows, { i \in DOMAIN rows : \A j \in DOMAIN rows : j > i => keys[j] # keys[i] })

\* DataFrame.drop_duplicates(subset=[column], keep="first")
drop_duplicates_first(rows, keys) ==
    TakeRows(rows, { i \in DOMAIN rows : \A j \in DOMAIN rows : j < i => keys[j] # keys[i] })

\* DataFrame.drop_duplicates(): the first of equal rows is kept
drop_duplicates(rows) ==
    TakeRows(rows, { i \in DOMAIN rows : \A j \in DOMAIN rows : j < i => rows[j] # rows[i] })

\* DataFrame.sort_values(column): ascending, rows with equal keys keep their
\* order; keys is the column
InsertSorted(order, i, keys) ==
    LET n == Cardinality({ p \in DOMAIN order : ~StrLess(keys[i], keys[order[p]]) })
    IN  SubSeq(order, 1, n) \o << i >> \o SubSeq(order, n + 1, Len(order))

sort_values(rows, keys) ==
    LET F[i \in 0..Len(rows)] ==
            IF i = 0 THEN << >> ELSE InsertSorted(F[i - 1], i, keys)
    IN  [ p \in DOMAIN rows |-> rows[F[Len(rows)][p]] ]

\* load_mapping on a file holding the rows 'file': keys trimmed, countries
\* trimmed and "none"/"nan" turned into "".
load_mapping(file) ==
    [ i \in DOMAIN file |->
        LET c == strip(astype_str(file[i].Country))
        IN  [ Network_ID |-> strip(astype_str(file[i].Network_ID)),
              Country |-> IF IsNoneOrNan(c) THEN << >> ELSE c ] ]

load_partner_mapping(file) ==
    [ i \in DOMAIN file |->
        LET c == strip(astype_str(file[i].Country))
        IN  [ Partner_Name |-> strip(astype_str(file[i].Partner_Name)),
              Country |-> IF IsNoneOrNan(c) THEN << >> ELSE c ] ]

\* What a merge call hands back: ret is the table returned, to_csv the
\* tables the call wrote to the mapping file (none or one)
unchanged(table) == [ ret |-> table, to_csv |-> << >> ]

written(combined) == [ ret |-> combined, to_csv |-> << combined >> ]

\* Lines 292-294: the candidates trimmed, those without key or country dropped
clean_new_pairs(new_pairs_df) ==
    SelectSeq([ i \in DOMAIN new_pairs_df |->
                  [ Network_ID |-> strip(astype_str(new_pairs_df[i].Network_ID)),
                    Country |-> strip(astype_str(new_pairs_df[i].Country)) ] ],
              LAMBDA r : r.Network_ID # << >> /\ r.Country # << >>)

sorted_by_Network_ID(rows) == sort_values(rows, Network_ID(rows))

\* Lines 298-302
combine_network_KeepFirst(concat) ==
    sorted_by_Network_ID(drop_duplicates_first(concat, Network_ID(concat)))

combine_network(concat) ==
    sorted_by_Network_ID(drop_duplicates_last(concat, Network_ID(concat)))

\* Lines 295-306
merge_network(mapping_df, kept) ==
    IF kept = << >> THEN unchanged(mapping_df)
    ELSE written(combine_network(mapping_df \o kept))

save_new_mappings_to_csv(mapping_df, new_pairs_df) ==
    IF new_pairs_df = << >> THEN unchanged(mapping_df)
    ELSE merge_network(mapping_df, clean_new_pairs(new_pairs_df))

\* Lines 330-332
clean_new_df(new_df) ==
    SelectSeq([ i \in DOMAIN new_df |->
                  [ Partner_Name |-> strip(astype_str(new_df[i].Partner_Name)),
                    Country |-> strip(astype_str(new_df[i].Country)) ] ],
              LAMBDA r : r.Partner_Name # << >> /\ r.Country # << >>)

sorted_by_Partner_Name(rows) == sort_values(rows, Partner_Name(rows))

\* Lines 336-337
combine_partner(concat) ==
    sorted_by_Partner_Name(drop_duplicates_last(concat, Partner_Name(concat)))

\* Lines 333-341
merge_partner(pm_df, kept) ==
    IF kept = << >> THEN unchanged(pm_df)
    ELSE written(combine_partner(pm_df \o kept))

save_partner_mappings_AlwaysWrite(pm_df, new_df) ==
    written(combine_partner(pm_df \o clean_new_df(new_df)))

save_partner_mappings(pm_df, new_df) ==
    IF new_df = << >> THEN unchanged(pm_df)
    ELSE merge_partner(pm_df, clean_new_df(new_df))

\* ------------------------------------------------------------------------
\* Workbook parsing
\* ------------------------------------------------------------------------

\* A worksheet cell: a number, a text or an empty cell (NaN)
Num(n) == [ k |-> "num", n |-> n, s |-> << >> ]

Txt(s) == [ k |-> "str", n |-> 0, s |-> s ]

NaN == [ k |-> "nan", n |-> 0, s |-> << >> ]

\* The value of a run of digits
RECURSIVE DigitsValue(_)
DigitsValue(s) ==
    IF s = << >> THEN 0
    ELSE 10 * DigitsValue(SubSeq(s, 1, Len(s) - 1)) + DigitValue(s[Len(s)])

IsDigits(s) == s # << >> /\ \A i \in DOMAIN s : IsDigit(s[i])

\* safe_year_from_filename: the first 19dd or 20dd in the name, else None
None_Year == 0

\* The positions where (19\d{2}|20\d{2}) matches
year_matches(name) ==
    { i \in 1..(Len(name) - 3) :
        /\ SubSeq(name, i, i + 1) \in { <<"1","9">>, <<"2","0">> }
        /\ IsDigit(name[i + 2]) /\ IsDigit(name[i + 3]) }

\* re.search: the leftmost match; int(m.group(1))
first_year(name, hits) ==
    IF hits = { } THEN None_Year
    ELSE DigitsValue(SubSeq(name, CHOOSE h \in hits : \A g \in hits : h <= g,
                            (CHOOSE h \in hits : \A g \in hits : h <= g) + 3))

safe_year_from_filename(name) == first_year(astype_str(name), year_matches(astype_str(name)))

\* pd.to_numeric(errors="coerce") of one cell: numbers stay, text that spells
\* an integer is parsed, anything else is NaN
parse_number(t) ==
    IF IsDigits(t) THEN Num(DigitsValue(t))
    ELSE IF t # << >> /\ Head(t) = "-" /\ IsDigits(Tail(t)) THEN Num(0 - DigitsValue(Tail(t)))
    ELSE NaN

to_numeric(cell) ==
    IF cell.k = "num" THEN cell
    ELSE IF cell.k = "nan" THEN NaN
    ELSE parse_number(strip(cell.s))

\* Series.fillna(0)
fillna0_Skip(cell) == cell

fillna0(cell) == IF cell.k = "nan" THEN Num(0) ELSE cell

\* sum(axis=1) of numeric cells
RECURSIVE SumCells(_)
SumCells(cells) ==
    IF cells = << >> THEN 0 ELSE Head(cells).n + SumCells(Tail(cells))

\* pd.read_excel(..., skiprows=1): the first row is skipped, the second holds
\* the headers, the rest is data
read_excel(sheet) ==
    IF Len(sheet.rows) < 2
    THEN [ columns |-> << >>, data |-> << >> ]
    ELSE [ columns |-> [ i \in DOMAIN sheet.rows[2] |-> sheet.rows[2][i].s ],
           data |-> SubSeq(sheet.rows, 3, Len(sheet.rows)) ]

\* norm(s) of standardize_columns
norm(s) == RemoveSpaces(lower(strip(s)))

\* (\.\d+)?$ of daily_vol_regex
daily_suffix(tail) == tail = << >> \/ (Head(tail) = "." /\ IsDigits(Tail(tail)))

\* \s*\(kb\)(\.\d+)?$ of daily_vol_regex, 'rest' without the leading white space
daily_rest(rest) ==
    StartsWith(rest, <<"(","k","b",")">>) /\ daily_suffix(SubSeq(rest, 5, Len(rest)))

\* daily_vol_regex.match(c): ^volume\s*\(kb\)(\.\d+)?$ , ignoring case
daily_vol_regex_match(l) ==
    StartsWith(lower(l), <<"v","o","l","u","m","e">>) /\ daily_rest(lstrip(SubSeq(lower(l), 7, Len(l))))

\* What the column loop of standardize_columns makes of one header, given
\* the stripped header c_clean and lc = norm(c_clean)
kind_of(c_clean, lc) ==
    IF Contains(<<"p","a","r","t","n","e","r","n","a","m","e">>, lc) THEN "Partner Name"
    ELSE IF Contains(<<"n","e","t","w","o","r","k","i","d">>, lc) THEN "Network ID"
    ELSE IF \/ lc = <<"t","o","t","a","l","v","o","l","u","m","e","(","k","b",")">>
            \/ Contains(<<"t","o","t","a","l">>, lc) /\ Contains(<<"v","o","l","u","m","e","(","k","b",")">>, lc)
    THEN "total_volume_col"
    ELSE IF \/ lc = <<"t","o","t","a","l","d","u","r","a","t","i","o","n","(","m","i","n",")">>
            \/ Contains(<<"t","o","t","a","l">>, lc) /\ Contains(<<"d","u","r","a","t","i","o","n","(","m","i","n",")">>, lc)
            \/ Contains(<<"t","o","t","a","l","d","u","r","a","t","i","o","n">>, lc) /\ Contains(<<"m","i","n">>, lc)
    THEN "total_duration_col"
    ELSE IF \/ Contains(<<"t","o","t","a","l","g","p","r","s">>, lc) /\ Contains(<<"a","m","o","u","n","t">>, lc)
            \/ Contains(<<"t","o","t","a","l","g","p","r","s","a","m","o","u","n","t">>, lc)
    THEN "total_gprs_col"
    ELSE IF \/ Contains(<<"t","o","t","a","l","v","o","i","c","e">>, lc) /\ Contains(<<"a","m","o","u","n","t">>, lc)
            \/ Contains(<<"t","o","t","a","l","v","o","i","c","e","a","m","o","u","n","t">>, lc)
    THEN "total_voice_col"
    ELSE IF daily_vol_regex_match(c_clean) THEN "daily_volume_cols"
    ELSE "other"

ColumnKind(c) == kind_of(strip(c), norm(strip(c)))

\* The kind of every column, in column order
ColumnKinds(columns) == [ i \in DOMAIN columns |-> ColumnKind(columns[i]) ]

\* The column a total_*_col variable ends up naming: the last match (0: None)
LastOf(kinds, kind) ==
    IF \A i \in DOMAIN kinds : kinds[i] # kind THEN 0
    ELSE CHOOSE i \in DOMAIN kinds :
             kinds[i] = kind /\ \A j \in DOMAIN kinds : kinds[j] = kind => j <= i

\* pd.to_numeric(..., errors="coerce").fillna(0) of a total column; 0.0 when
\* the sheet has no such column
total_of(row, col) == IF col # 0 THEN fillna0(to_numeric(row[col])) ELSE Num(0)

\* df[daily_volume_cols].apply(pd.to_numeric, errors="coerce").fillna(0).sum(axis=1)
daily_sum(row, kinds) ==
    SumCells([ i \in DOMAIN row |->
                 IF kinds[i] = "daily_volume_cols" THEN fillna0(to_numeric(row[i]))
                 ELSE Num(0) ])

\* Lines 241-248
total_volume(row, kinds, vol) ==
    IF vol # 0 THEN fillna0(to_numeric(row[vol]))
    ELSE IF \E i \in DOMAIN kinds : kinds[i] = "daily_volume_cols"
    THEN Num(daily_sum(row, kinds))
    ELSE Num(0)

id_cell(row, col) == IF col # 0 THEN row[col] ELSE NaN

\* One data row after standardize_columns
standardize_row(row, kinds) ==
    [ Partner_Name |-> id_cell(row, LastOf(kinds, "Partner Name")),
      Network_ID |-> id_cell(row, LastOf(kinds, "Network ID")),
      Total_Volume_KB |-> total_volume(row, kinds, LastOf(kinds, "total_volume_col")),
      Total_Duration_min |-> total_of(row, LastOf(kinds, "total_duration_col")),
      Total_GPRS_Amount_USD |-> total_of(row, LastOf(kinds, "total_gprs_col")),
      Total_Voice_Amount_USD |-> total_of(row, LastOf(kinds, "total_voice_col")) ]

\* standardize_columns: whether the identifier columns exist after renaming
\* and, for every data row, the identifier cells and the four totals
standardized(data, kinds) ==
    [ has_partner |-> LastOf(kinds, "Partner Name") # 0,
      has_network |-> LastOf(kinds, "Network ID") # 0,
      rows |-> [ r \in DOMAIN data |-> standardize_row(data[r], kinds) ] ]

standardize_columns(df) == standardized(df.data, ColumnKinds(df.columns))

\* Series.astype("string").str.strip().fillna("") of an identifier cell
id_text(cell) == IF cell.k = "str" THEN strip(cell.s) ELSE << >>

IsTotalLabel(s) == lower(s) \in { <<"t","o","t","a","l">>, <<"g","r","a","n","d"," ","t","o","t","a","l">> }

\* Lines 371-376: is the row kept
is_data_row(partner, network) ==
    /\ partner # << >>
    /\ network # << >>
    /\ ~IsTotalLabel(partner)
    /\ ~IsTotalLabel(network)

\* Lines 378-383 for one kept row
usage_record(r, year, sheet_name) ==
    [ Partner_Name |-> r.Partner_Name.s,
      Network_ID |-> r.Network_ID.s,
      Total_Volume_KB |-> fillna0(to_numeric(r.Total_Volume_KB)),
      Total_Duration_min |-> fillna0(to_numeric(r.Total_Duration_min)),
      Total_GPRS_Amount_USD |-> fillna0(to_numeric(r.Total_GPRS_Amount_USD)),
      Total_Voice_Amount_USD |-> fillna0(to_numeric(r.Total_Voice_Amount_USD)),
      Year |-> year,
      Month |-> sheet_name ]

usage_records(kept, year, sheet_name) ==
    [ i \in DOMAIN kept |-> usage_record(kept[i], year, sheet_name) ]

\* Lines 365-383 for one standardized sheet
records_of(df, year, sheet_name) ==
    IF ~df.has_partner \/ ~df.has_network THEN << >>
    ELSE usage_records(SelectSeq(df.rows, LAMBDA r :
                           is_data_row(id_text(r.Partner_Name), id_text(r.Network_ID))),
                       year, sheet_name)

\* The records one sheet contributes (lines 357-383)
sheet_records(sheet, year) ==
    records_of(standardize_columns(read_excel(sheet)), year, sheet.name)

\* parse_workbook: the records of every sheet not named total / sheet1
RECURSIVE parse_sheets(_, _)
parse_sheets(sheets, year) ==
    IF sheets = << >> THEN << >>
    ELSE (IF lower(strip(Head(sheets).name)) \in { <<"t","o","t","a","l">>, <<"s","h","e","e","t","1">> }
          THEN << >>
          ELSE sheet_records(Head(sheets), year))
         \o parse_sheets(Tail(sheets), year)

parse_workbook(workbook) ==
    parse_sheets(workbook.sheets, safe_year_from_filename(workbook.name))

\* ------------------------------------------------------------------------
\* The ingestion run: join, resolve, auto-save, missing list, aggregate
\* ------------------------------------------------------------------------

\* Line 424: part["SourceFile"] = f.name
with_SourceFile(part, name) ==
    [ i \in DOMAIN part |->
        [ Partner_Name |-> part[i].Partner_Name,
          Network_ID |-> part[i].Network_ID,
          Total_Volume_KB |-> part[i].Total_Volume_KB,
          Total_Duration_min |-> part[i].Total_Duration_min,
          Total_GPRS_Amount_USD |-> part[i].Total_GPRS_Amount_USD,
          Total_Voice_Amount_USD |-> part[i].Total_Voice_Amount_USD,
          Year |-> part[i].Year,
          Month |-> part[i].Month,
          SourceFile |-> name ] ]

\* Lines 420-429: every uploaded workbook parsed, SourceFile added, all
\* concatenated
RECURSIVE parse_all(_)
parse_all(files) ==
    IF files = << >> THEN << >>
    ELSE with_SourceFile(parse_workbook(Head(files)), Head(files).name)
         \o parse_all(Tail(files))

\* One record with the columns the join and the resolve step add
WithCountry(r, country, inferred) ==
    [ Partner_Name |-> r.Partner_Name,
      Network_ID |-> r.Network_ID,
      Total_Volume_KB |-> r.Total_Volume_KB,
      Total_Duration_min |-> r.Total_Duration_min,
      Total_GPRS_Amount_USD |-> r.Total_GPRS_Amount_USD,
      Total_Voice_Amount_USD |-> r.Total_Voice_Amount_USD,
      Year |-> r.Year,
      Month |-> r.Month,
      SourceFile |-> r.SourceFile,
      Country |-> country,
      Country_inferred |-> inferred ]

\* The rows the left join makes of one record whose Network ID is nid
joined(r, nid, hits) ==
    IF hits = << >>
    THEN << WithCountry([ r EXCEPT !.Network_ID = nid ], None, None) >>
    ELSE [ h \in DOMAIN hits |->
             WithCountry([ r EXCEPT !.Network_ID = nid ], hits[h].Country, None) ]

join_one(r, nid, mapping_df) ==
    joined(r, nid, SelectSeq(mapping_df, LAMBDA m : m.Network_ID = nid))

\* Lines 434-435: Network ID trimmed, then the left join with the network
\* table: one row per matching table row, Country NaN where none matches
RECURSIVE left_join(_, _)
left_join(raw_all, mapping_df) ==
    IF raw_all = << >> THEN << >>
    ELSE join_one(Head(raw_all), strip(astype_str(Head(raw_all).Network_ID)), mapping_df)
         \o left_join(Tail(raw_all), mapping_df)

\* df[["Network ID", "Country_inferred"]]
network_pairs(frame) ==
    [ i \in DOMAIN frame |->
        [ Network_ID |-> frame[i].Network_ID, Country |-> frame[i].Country_inferred ] ]

\* Line 472
mapped_set_of(mapping_df) ==
    { strip(astype_str(mapping_df[i].Network_ID)) : i \in DOMAIN mapping_df }

\* Lines 474-475: the pairs whose Network ID the table lacks and whose
\* country is known
new_pairs_of(pairs, mapped_set) ==
    SelectSeq(pairs, LAMBDA p :
        /\ strip(astype_str(p.Network_ID)) \notin mapped_set
        /\ strip(astype_str(p.Country)) # << >>)

\* Lines 476-477
save_if_any(mapping_df, new_pairs) ==
    IF new_pairs = << >> THEN unchanged(mapping_df)
    ELSE save_new_mappings_to_csv(mapping_df, new_pairs)

\* Lines 472-477: the new pairs of the batch, each once, merged into the
\* network table
auto_save_network_AppendRows(mapping_df, frame) ==
    IF new_pairs_of(network_pairs(frame), mapped_set_of(mapping_df)) = << >>
    THEN unchanged(mapping_df)
    ELSE written(mapping_df
                 \o new_pairs_of(network_pairs(frame), mapped_set_of(mapping_df)))

auto_save_network(mapping_df, frame) ==
    save_if_any(mapping_df,
        new_pairs_of(drop_duplicates(network_pairs(frame)), mapped_set_of(mapping_df)))

\* Lines 480-482: the (Partner Name, Country_inferred) pairs of the resolved
\* rows, each once
partner_pairs(frame) ==
    drop_duplicates(
        [ i \in DOMAIN frame |->
            [ Partner_Name |-> frame[i].Partner_Name, Country |-> frame[i].Country_inferred ] ])

\* Line 484
existing_pm_of(pm_df) == { lower(astype_str(pm_df[i].Partner_Name)) : i \in DOMAIN pm_df }

\* Lines 485-487
new_partner_pairs_of(pairs, existing_pm) ==
    SelectSeq(pairs, LAMBDA p : lower(astype_str(p.Partner_Name)) \notin existing_pm)

\* Lines 488-489
save_partner_if_any(pm_df, new_partner_pairs) ==
    IF new_partner_pairs = << >> THEN unchanged(pm_df)
    ELSE save_partner_mappings(pm_df, new_partner_pairs)

\* Lines 480-489: the same for partner names, compared in lower case
auto_save_partner(pm_df, frame) ==
    save_partner_if_any(pm_df,
        new_partner_pairs_of(
            partner_pairs(SelectSeq(frame, LAMBDA r :
                              strip(astype_str(r.Country_inferred)) # << >>)),
            existing_pm_of(pm_df)))

\* missing[["Network ID", "Partner Name"]]
missing_pairs(missing) ==
    [ i \in DOMAIN missing |->
        [ Network_ID |-> missing[i].Network_ID, Partner_Name |-> missing[i].Partner_Name ] ]

sorted_missing(pairs) == sort_values(pairs, Network_ID(pairs))

\* Lines 496-497: the {Network ID, Partner Name} pairs of the rows without a
\* country, each once, sorted by Network ID
missing_ids_of_OnePerNetwork(frame) ==
    sorted_missing(drop_duplicates_first(
        missing_pairs(SelectSeq(frame, LAMBDA r : r.Country = << >>)),
        Network_ID(missing_pairs(SelectSeq(frame, LAMBDA r : r.Country = << >>)))))

missing_ids_of(frame) ==
    sorted_missing(drop_duplicates(
        missing_pairs(SelectSeq(frame, LAMBDA r : r.Country = << >>))))

\* Line 548: the rows handed to the aggregation
df_ok_of(frame) == SelectSeq(frame, LAMBDA r : r.Country # << >>)

\* The sums of one group
group_sums(grp, year, country) ==
    [ Year |-> year,
      Country |-> country,
      Total_Volume_KB |-> SumCells([ i \in DOMAIN grp |-> grp[i].Total_Volume_KB ]),
      Total_Duration_min |-> SumCells([ i \in DOMAIN grp |-> grp[i].Total_Duration_min ]),
      Total_GPRS_Amount_USD |->
          SumCells([ i \in DOMAIN grp |-> grp[i].Total_GPRS_Amount_USD ]),
      Total_Voice_Amount_USD |->
          SumCells([ i \in DOMAIN grp |-> grp[i].Total_Voice_Amount_USD ]) ]

\* Lines 550-558: one group per (Year, Country) of df_ok, the four totals
\* summed; rows without a year form no group (groupby drops NaN keys)
country_usage_of(ok) ==
    { group_sums(SelectSeq(ok, LAMBDA r : r.Year = ok[i].Year /\ r.Country = ok[i].Country),
                 ok[i].Year, ok[i].Country) :
      i \in { j \in DOMAIN ok : ok[j].Year # None_Year } }

\* Line 565: the years of country_usage
years_of(usage) == { g.Year : g \in usage }

\* ------------------------------------------------------------------------
\* State
\* ------------------------------------------------------------------------
VARIABLES
    pc,             \* position of the script run
    runs,           \* script runs started so far
    exists,         \* the mapping files present on disk
    net_file,       \* rows of mapping/network_to_country.csv
    pm_file,        \* rows of mapping/partner_to_country.csv
    mapping,        \* the network table in memory
    partner_map,    \* the partner table in memory
    uploaded_files, \* the uploaded workbooks, in order
    df,             \* the joined frame
    resolved,       \* rows of df resolved so far
    missing_ids,    \* the pairs shown in the editor
    save,           \* the last click on "Save mappings"
    df_ok,          \* the rows handed to the aggregation
    country_usage,  \* the aggregate
    st_messages,    \* st.warning / st.error / st.success shown in this run
    writes,         \* the mapping-file writes of this run, in order
    previous,       \* the run before this one and the countries it resolved
    fn_pc,          \* position of a single-function run: "call" or "return"
    fn_in,          \* its arguments
    fn_out          \* its result

run_vars ==
    << pc, runs, exists, net_file, pm_file, mapping, partner_map, uploaded_files, df, resolved,
       missing_ids, save, df_ok, country_usage, st_messages, writes, previous >>

fn_vars == << fn_pc, fn_in, fn_out >>

vars == << run_vars, fn_vars >>

\* No earlier run whose outcome the next run can be compared with
NoPrevious == [ run |-> 0, Country |-> << >> ]

NoSave == [ clicked |-> FALSE, edited |-> << >>, error |-> FALSE, to_csv |-> << >> ]

\* No script run: the state of the run while a single function is exercised
RunIdle ==
    /\ pc = "idle"
    /\ runs = 0
    /\ exists = { }
    /\ net_file = << >>
    /\ pm_file = << >>
    /\ mapping = << >>
    /\ partner_map = << >>
    /\ uploaded_files = << >>
    /\ df = << >>
    /\ resolved = 0
    /\ missing_ids = << >>
    /\ save = NoSave
    /\ df_ok = << >>
    /\ country_usage = { }
    /\ st_messages = { }
    /\ writes = << >>
    /\ previous = NoPrevious

\* No single-function run: the state of fn_vars during a script run
FnIdle ==
    /\ fn_pc = "idle"
    /\ fn_in = << >>
    /\ fn_out = << >>

\* ------------------------------------------------------------------------
\* infer_chain applied to one joined row
\* ------------------------------------------------------------------------

MaxPartnerRows == 2

SeqsUpTo(S, n) == UNION { [ 1..m -> S ] : m \in 0..n }

ChainPartnerNames ==
    { <<"B","h","a","r","t","i"," ","A","i","r","t","e","l"," ","L","t","d">>,
      <<" ","a","c","m","e"," ">>,
      <<"T","e","l","e","c","o","m"," ","M","a","l","t","a">>,
      <<"H","o","n","g"," ","K","o","n","g"," ","T","e","l","e","c","o","m"," ","1">>,
      <<"O","r","a","n","g","e">>,
      <<" ">> }

ChainNetworkIds ==
    { <<"G","B","R","0","0","1">>, <<" ","i","n","d","7"," ">>, <<"X","Y","Z","0","1">>, <<"G","B">> }

ChainJoinCountries ==
    { None, << >>, <<" "," ">>, <<" ","M","a","l","t","a"," ">>, <<"S","p","a","i","n">> }

ChainPartnerRows ==
    [ Partner_Name : { <<"A","c","m","e">>, <<"A","C","M","E">>, <<"T","e","l","e","c","o","m"," ","M","a","l","t","a">> },
      Country : { << >>, <<"S","p","a","i","n">>, <<"L","a","t","v","i","a">> } ]

ChainInit ==
    /\ RunIdle
    /\ fn_pc = "call"
    /\ fn_in \in [ Partner_Name : ChainPartnerNames,
                   Network_ID : ChainNetworkIds,
                   Country : ChainJoinCountries,
                   partner_map : SeqsUpTo(ChainPartnerRows, MaxPartnerRows) ]
    /\ fn_out = [ ret |-> None, calls |-> { }, Country_inferred |-> << >> ]


ChainResolve ==
    /\ fn_pc = "call"
    /\ fn_out' = resolve_row(fn_in, pm_dict_of(fn_in.partner_map))
    /\ fn_pc' = "return"
    /\ UNCHANGED << fn_in, run_vars >>

ChainNext == ChainResolve

SpecChain == ChainInit /\ [][ChainNext]_vars

HasJoinCountry(row) == ~isna(row.Country) /\ strip(row.Country) # << >>

\* C1: a row whose joined Country is non-empty after trimming resolves to
\* exactly that trimmed country, with no later stage (partner table, rules,
\* partner text, network-id prefix) consulted.
C1_Stage0ShortCircuit ==
    (fn_pc = "return" /\ HasJoinCountry(fn_in))
        => /\ fn_out.ret = strip(fn_in.Country)
           /\ fn_out.Country_inferred = strip(fn_in.Country)
           /\ fn_out.calls = { }

\* A row joined to " Malta " for which the partner table says Spain and the
\* network-id prefix says United Kingdom has resolved to "Malta".
C1_Witness ==
    /\ fn_pc = "return"
    /\ fn_in.Country = <<" ","M","a","l","t","a"," ">>
    /\ fn_in.Partner_Name = <<" ","a","c","m","e"," ">>
    /\ pm_get(pm_dict_of(fn_in.partner_map), <<"a","c","m","e">>) = <<"S","p","a","i","n">>
    /\ infer_country_from_network_id(fn_in.Network_ID) = <<"U","n","i","t","e","d"," ","K","i","n","g","d","o","m">>
    /\ fn_out.ret = <<"M","a","l","t","a">>

\* The four fallback stages as the specification words them, each on its own.
Stage1_PartnerTable(row) ==
    LET hits == SelectSeq(row.partner_map,
                          LAMBDA r : lower(r.Partner_Name) = lower(strip(row.Partner_Name)))
    IN  IF hits = << >> THEN << >> ELSE hits[Len(hits)].Country

Stage2_Rules(row) == infer_country_from_partner(strip(row.Partner_Name))

Stage3_PartnerText(row) == detect_country_from_partner_text(strip(row.Partner_Name))

Stage4_Prefix(row) == dict_get(prefix_map, Prefix(upper(strip(row.Network_ID)), 3))

RECURSIVE FirstNonEmpty(_)
FirstNonEmpty(results) ==
    IF results = << >> THEN << >>
    ELSE IF truthy(Head(results)) THEN Head(results)
    ELSE FirstNonEmpty(Tail(results))

\* C2: a row without a joined country resolves to the first non-empty result
\* of partner table, rules, partner text, network-id prefix, in this order,
\* and to "" when all four are empty; the prefix table is reached only when
\* the first three stages gave nothing.
C2_FallbackOrder ==
    (fn_pc = "return" /\ ~HasJoinCountry(fn_in))
        => /\ fn_out.Country_inferred =
                  FirstNonEmpty(<< Stage1_PartnerTable(fn_in), Stage2_Rules(fn_in),
                                   Stage3_PartnerText(fn_in), Stage4_Prefix(fn_in) >>)
           /\ "prefix" \in fn_out.calls
                  => /\ ~truthy(Stage1_PartnerTable(fn_in))
                     /\ ~truthy(Stage2_Rules(fn_in))
                     /\ ~truthy(Stage3_PartnerText(fn_in))

\* "Telecom Malta" on network GBR001 with no table hit has resolved to Malta
\* (partner text) although the prefix GBR names United Kingdom.
C2_Witness ==
    /\ fn_pc = "return"
    /\ ~HasJoinCountry(fn_in)
    /\ fn_in.Partner_Name = <<"T","e","l","e","c","o","m"," ","M","a","l","t","a">>
    /\ fn_in.Network_ID = <<"G","B","R","0","0","1">>
    /\ ~truthy(Stage1_PartnerTable(fn_in))
    /\ Stage4_Prefix(fn_in) = <<"U","n","i","t","e","d"," ","K","i","n","g","d","o","m">>
    /\ fn_out.Country_inferred = <<"M","a","l","t","a">>

\* ------------------------------------------------------------------------
\* One merge call: save_new_mappings_to_csv or save_partner_mappings
\* ------------------------------------------------------------------------

MaxOldRows == 2

MaxNewPairs == 2

MergeOldKeys == { <<"A","1">>, <<"B","2">> }

MergeOldCountries == { <<"I","n","d","i","a">>, << >> }

MergeNewKeys == { <<"A","1">>, <<" ","C","3"," ">>, << >> }

MergeNewCountries == { <<"S","p","a","i","n">>, <<" ","I","n","d","i","a"," ">>, <<" ">> }

MergeInit ==
    /\ RunIdle
    /\ fn_pc = "call"
    /\ \/ fn_in \in [ fn : { "save_new_mappings_to_csv" },
                      old : SeqsUpTo([ Network_ID : MergeOldKeys,
                                       Country : MergeOldCountries ], MaxOldRows),
                      new : SeqsUpTo([ Network_ID : MergeNewKeys,
                                       Country : MergeNewCountries ], MaxNewPairs) ]
       \/ fn_in \in [ fn : { "save_partner_mappings" },
                      old : SeqsUpTo([ Partner_Name : MergeOldKeys,
                                       Country : MergeOldCountries ], MaxOldRows),
                      new : SeqsUpTo([ Partner_Name : MergeNewKeys,
                                       Country : MergeNewCountries ], MaxNewPairs) ]
    /\ fn_out = [ ret |-> << >>, to_csv |-> << >> ]

MergeNetwork ==
    /\ fn_pc = "call"
    /\ fn_in.fn = "save_new_mappings_to_csv"
    /\ fn_out' = save_new_mappings_to_csv(fn_in.old, fn_in.new)
    /\ fn_pc' = "return"
    /\ UNCHANGED << fn_in, run_vars >>

MergePartner ==
    /\ fn_pc = "call"
    /\ fn_in.fn = "save_partner_mappings"
    /\ fn_out' = save_partner_mappings(fn_in.old, fn_in.new)
    /\ fn_pc' = "return"
    /\ UNCHANGED << fn_in, run_vars >>

MergeNext == MergeNetwork \/ MergePartner

SpecMerge == MergeInit /\ [][MergeNext]_vars

\* A table or candidate set as <<key, country>> pairs, whichever table it is of.
AsPairs(rows) ==
    [ i \in DOMAIN rows |->
        IF fn_in.fn = "save_new_mappings_to_csv"
        THEN << rows[i].Network_ID, rows[i].Country >>
        ELSE << rows[i].Partner_Name, rows[i].Country >> ]

\* The candidate pairs that qualify: trimmed, key and country both non-empty.
Qualifying(pairs) ==
    SelectSeq([ i \in DOMAIN pairs |-> << strip(pairs[i][1]), strip(pairs[i][2]) >> ],
              LAMBDA p : p[1] # << >> /\ p[2] # << >>)

KeysOf(pairs) == { pairs[i][1] : i \in DOMAIN pairs }

\* The country of the last pair with key k
LastCountry(pairs, k) ==
    pairs[CHOOSE i \in DOMAIN pairs :
              /\ pairs[i][1] = k
              /\ \A j \in DOMAIN pairs : pairs[j][1] = k => j <= i][2]

\* C3: after a merge with a qualifying pair the returned table has one entry
\* per key; a qualifying key maps to the country of its last candidate; an
\* old key no candidate names keeps its old country; nothing else is added.
C3_MergePostcondition ==
    LET old == AsPairs(fn_in.old)
        new == Qualifying(AsPairs(fn_in.new))
        ret == AsPairs(fn_out.ret)
    IN  (fn_pc = "return" /\ new # << >>)
            => /\ \A i, j \in DOMAIN ret : ret[i][1] = ret[j][1] => i = j
               /\ \A k \in KeysOf(new) : << k, LastCountry(new, k) >> \in Range(ret)
               /\ \A k \in KeysOf(old) \ KeysOf(new) :
                      << k, LastCountry(old, k) >> \in Range(ret)
               /\ KeysOf(ret) = KeysOf(old) \cup KeysOf(new)
               /\ fn_out.to_csv = << fn_out.ret >>

\* A1 -> India was in the table, A1 -> Spain and " C3 " -> " India " were
\* merged: A1 now maps to Spain and C3 to India.
C3_Witness ==
    /\ fn_pc = "return"
    /\ << <<"A","1">>, <<"I","n","d","i","a">> >> \in Range(AsPairs(fn_in.old))
    /\ << <<"B","2">>, << >> >> \in Range(AsPairs(fn_in.old))
    /\ AsPairs(fn_in.new) = << << <<" ","C","3"," ">>, <<" ","I","n","d","i","a"," ">> >>, << <<"A","1">>, <<"S","p","a","i","n">> >> >>
    /\ AsPairs(fn_out.ret) = << << <<"A","1">>, <<"S","p","a","i","n">> >>, << <<"B","2">>, << >> >>,
                                << <<"C","3">>, <<"I","n","d","i","a">> >> >>

\* C4: a merge whose candidates are none, or all lack a key or a country
\* after trimming, writes nothing and returns the table it was given.
C4_MergeNoOp ==
    (fn_pc = "return" /\ Qualifying(AsPairs(fn_in.new)) = << >>)
        => /\ fn_out.to_csv = << >>
           /\ fn_out.ret = fn_in.old

\* A merge of two candidates, one without key and one without country, into
\* a non-empty table has returned.
C4_Witness ==
    /\ fn_pc = "return"
    /\ fn_in.old # << >>
    /\ Len(fn_in.new) = 2
    /\ strip(AsPairs(fn_in.new)[1][1]) = << >>
    /\ strip(AsPairs(fn_in.new)[2][2]) = << >>
    /\ strip(AsPairs(fn_in.new)[2][1]) # << >>
    /\ fn_out.to_csv = << >>

\* ------------------------------------------------------------------------
\* parse_workbook applied to one workbook
\* ------------------------------------------------------------------------

MaxSheets == 1

ParseFilenames ==
    { <<"R","e","p","o","r","t","_","O","c","t","_","2","0","2","0",".","x","l","s","x">>, <<"u","s","a","g","e",".","x","l","s","x">>, <<"1","9","9","9","_","2","0","2","1",".","x","l","s","x">> }

NumericCells == { Num(7), Num(0 - 5), Txt(<<"a","b","c">>), Txt(<<" ","-","3"," ">>), NaN }

BannerRow == << Txt(<<"D","a","i","l","y"," ","I","n"," ","R","o","a","m","e","r","s"," ","R","e","p","o","r","t">>) >>

TotalsHeader ==
    << Txt(<<"P","a","r","t","n","e","r"," ","N","a","m","e">>), Txt(<<"N","e","t","w","o","r","k"," ","I","D">>), Txt(<<"T","o","t","a","l"," ","V","o","l","u","m","e","(","K","B",")">>),
       Txt(<<"T","o","t","a","l"," ","D","u","r","a","t","i","o","n"," ","(","m","i","n",")">>), Txt(<<"T","o","t","a","l"," ","G","P","R","S"," ","A","m","o","u","n","t","(","U","S","D",")">>),
       Txt(<<"T","o","t","a","l"," ","V","o","i","c","e"," ","A","m","o","u","n","t","(","U","S","D",")">>) >>

DailyHeader ==
    << Txt(<<" ","p","a","r","t","n","e","r"," "," ","n","a","m","e">>), Txt(<<"N","E","T","W","O","R","K"," ","I","D">>), Txt(<<"V","o","l","u","m","e"," ","(","K","B",")">>),
       Txt(<<"V","o","l","u","m","e"," ","(","K","B",")",".","1">>), Txt(<<"N","o","t","e","s">>) >>

NoNetworkHeader == << Txt(<<"P","a","r","t","n","e","r"," ","N","a","m","e">>), Txt(<<"T","o","t","a","l"," ","V","o","l","u","m","e","(","K","B",")">>) >>

TotalsRows ==
    { << p, Txt(<<"G","B","R","0","0","1">>), v, d, Num(2), a >> :
        p \in { Txt(<<" ","O","r","a","n","g","e"," ">>), Txt(<<"G","r","a","n","d"," ","T","o","t","a","l">>) },
        v \in NumericCells,
        d \in { Num(3), Txt(<<"x">>) },
        a \in { NaN, Num(0 - 1) } }

DailyRows ==
    { << p, Txt(<<"X","Y","Z","0","1">>), v1, v2, Txt(<<"a","b","c">>) >> :
        p \in { Txt(<<"O","r","a","n","g","e">>), NaN }, v1 \in NumericCells, v2 \in NumericCells }

NoNetworkRows == { << Txt(<<"O","r","a","n","g","e">>), Num(7) >> }

ParseSheets ==
    { [ name |-> n, rows |-> << BannerRow, TotalsHeader, r >> ] :
        n \in { <<"J","a","n">>, <<" ","T","o","t","a","l"," ">> }, r \in TotalsRows }
    \cup { [ name |-> <<"F","e","b">>, rows |-> << BannerRow, DailyHeader, r >> ] : r \in DailyRows }
    \cup { [ name |-> <<"M","a","r">>, rows |-> << BannerRow, NoNetworkHeader, r >> ] :
             r \in NoNetworkRows }

ParseInit ==
    /\ RunIdle
    /\ fn_pc = "call"
    /\ fn_in \in [ name : ParseFilenames, sheets : SeqsUpTo(ParseSheets, MaxSheets) ]
    /\ fn_out = << >>

ParseWorkbook ==
    /\ fn_pc = "call"
    /\ fn_out' = parse_workbook(fn_in)
    /\ fn_pc' = "return"
    /\ UNCHANGED << fn_in, run_vars >>

ParseNext == ParseWorkbook

SpecParse == ParseInit /\ [][ParseNext]_vars

NumericFields(r) ==
    { r.Total_Volume_KB, r.Total_Duration_min, r.Total_GPRS_Amount_USD,
      r.Total_Voice_Amount_USD }

\* The data cells of the workbook's sheets
WorkbookCells(workbook) ==
    UNION { UNION { Range(workbook.sheets[s].rows[r]) :
                      r \in 3..Len(workbook.sheets[s].rows) } :
              s \in DOMAIN workbook.sheets }

\* C7 as stated: every emitted record has the four totals present and none
\* of them negative, whatever the cells hold.
C7_NumericNeverNegative ==
    fn_pc = "return"
        => \A i \in DOMAIN fn_out : \A f \in NumericFields(fn_out[i]) :
               f.k = "num" /\ f.n >= 0

\* C7 as the code has it: every emitted record has the four totals present
\* as numbers, and a total is negative only when a data cell of the workbook
\* holds a negative number.
C7_NumericPresent ==
    fn_pc = "return"
        => \A i \in DOMAIN fn_out : \A f \in NumericFields(fn_out[i]) :
               /\ f.k = "num"
               /\ f.n < 0 => \E c \in WorkbookCells(fn_in) :
                                 to_numeric(c).k = "num" /\ to_numeric(c).n < 0

\* A record was emitted from a row whose volume cell is the text "abc" and
\* whose voice amount is empty: both totals are 0.
C7_Witness ==
    /\ fn_pc = "return"
    /\ Len(fn_out) = 1
    /\ Len(fn_in.sheets) = 1
    /\ Len(fn_in.sheets[1].rows[3]) = 6
    /\ fn_in.sheets[1].rows[3][3] = Txt(<<"a","b","c">>)
    /\ fn_in.sheets[1].rows[3][6] = NaN
    /\ fn_out[1].Total_Volume_KB = Num(0)
    /\ fn_out[1].Total_Voice_Amount_USD = Num(0)
    /\ fn_out[1].Total_Duration_min = Num(3)

\* ------------------------------------------------------------------------
\* The script run
\* ------------------------------------------------------------------------

MaxFiles == 2

MaxRuns == 2

UsageRow(partner, network, volume) ==
    << Txt(partner), Txt(network), volume, Num(3), Num(2), Num(1) >>

Workbooks ==
    { [ name |-> <<"R","e","p","o","r","t","_","O","c","t","_","2","0","2","0",".","x","l","s","x">>,
        sheets |-> << [ name |-> <<"J","a","n">>,
                        rows |-> << BannerRow, TotalsHeader,
                                    UsageRow(<<" ","O","r","a","n","g","e"," ">>, <<"G","B","R","0","0","1">>, Num(7)) >> ] >> ],
      [ name |-> <<"R","e","p","o","r","t","_","2","0","2","1",".","x","l","s","x">>,
        sheets |-> << [ name |-> <<"F","e","b">>,
                        rows |-> << BannerRow, TotalsHeader,
                                    UsageRow(<<"O","r","a","n","g","e">>, <<" ","G","B","R","0","0","1"," ">>, Txt(<<"a","b","c">>)),
                                    UsageRow(<<"T","e","l","e","c","o","m"," ","M","a","l","t","a">>, <<"X","Y","Z","0","1">>, Num(5)) >> ] >> ],
      [ name |-> <<"R","e","p","o","r","t","_","2","0","2","0",".","x","l","s","x">>,
        sheets |-> << [ name |-> <<"M","a","r">>,
                        rows |-> << BannerRow, TotalsHeader,
                                    UsageRow(<<"O","r","a","n","g","e">>, <<"X","Y","Z","0","1">>, Num(4)),
                                    UsageRow(<<"A","c","m","e">>, <<"X","Y","Z","0","1">>, Num(0 - 5)) >> ] >> ],
      [ name |-> <<"u","s","a","g","e",".","x","l","s","x">>,
        sheets |-> << [ name |-> <<" ","T","o","t","a","l"," ">>,
                        rows |-> << BannerRow, TotalsHeader,
                                    UsageRow(<<"O","r","a","n","g","e">>, <<"G","B","R","0","0","1">>, Num(9)) >> ],
                      [ name |-> <<"A","p","r">>,
                        rows |-> << BannerRow, TotalsHeader,
                                    UsageRow(<<"A","c","m","e">>, <<"Q","Q","9">>, Num(6)) >> ] >> ],
      [ name |-> <<"s","u","m","m","a","r","y",".","x","l","s","x">>,
        sheets |-> << [ name |-> <<"S","h","e","e","t","1">>,
                        rows |-> << BannerRow, TotalsHeader,
                                    UsageRow(<<"O","r","a","n","g","e">>, <<"G","B","R","0","0","1">>, Num(9)) >> ] >> ] }

InitialNetworkFiles ==
    { << >>,
      << [ Network_ID |-> <<"G","B","R","0","0","1">>, Country |-> <<" ","S","p","a","i","n">> ] >>,
      << [ Network_ID |-> <<"X","Y","Z","0","1"," ">>, Country |-> <<"N","a","N">> ] >> }

InitialPartnerFiles ==
    { << >>,
      << [ Partner_Name |-> <<"A","C","M","E">>, Country |-> <<"L","a","t","v","i","a">> ] >> }

EditorCountries == { << >>, <<" ">>, <<"M","a","l","t","a"," ">> }

Init ==
    /\ FnIdle
    /\ pc = "load"
    /\ runs = 1
    /\ exists \in SUBSET { "network", "partner" }
    /\ net_file \in IF "network" \in exists THEN InitialNetworkFiles ELSE { << >> }
    /\ pm_file \in IF "partner" \in exists THEN InitialPartnerFiles ELSE { << >> }
    /\ mapping = << >>
    /\ partner_map = << >>
    /\ uploaded_files \in SeqsUpTo(Workbooks, MaxFiles)
    /\ df = << >>
    /\ resolved = 0
    /\ missing_ids = << >>
    /\ save = NoSave
    /\ df_ok = << >>
    /\ country_usage = { }
    /\ st_messages = { }
    /\ writes = << >>
    /\ previous = NoPrevious

\* One entry of the write log
Write(path, op, table) ==
    [ path |-> path, op |-> op, at |-> pc, resolved |-> resolved, rows |-> Len(df),
      table |-> table ]

\* The log entries of a merge call's to_csv
MergeWrites(path, result) ==
    [ i \in DOMAIN result.to_csv |-> Write(path, "merge", result.to_csv[i]) ]

\* Lines 410-411: both tables loaded; a missing or empty file is first
\* created with the header alone.  A new run starts with nothing computed.
Load ==
    /\ pc = "load"
    /\ exists' = { "network", "partner" }
    /\ UNCHANGED << net_file, pm_file >>
    /\ mapping' = load_mapping(net_file)
    /\ partner_map' = load_partner_mapping(pm_file)
    /\ writes' = (IF "network" \in exists THEN << >>
                  ELSE << Write("network", "create", << >>) >>)
                 \o (IF "partner" \in exists THEN << >>
                     ELSE << Write("partner", "create", << >>) >>)
    /\ df' = << >>
    /\ resolved' = 0
    /\ missing_ids' = << >>
    /\ df_ok' = << >>
    /\ country_usage' = { }
    /\ st_messages' = { }
    /\ pc' = "uploaded"
    /\ UNCHANGED << runs, uploaded_files, save, fn_vars, previous >>

\* Lines 413-415
NoFiles ==
    /\ pc = "uploaded"
    /\ uploaded_files = << >>
    /\ st_messages' = st_messages \cup { "Upload one or more Excel files to begin." }
    /\ pc' = "stopped"
    /\ UNCHANGED << runs, exists, net_file, pm_file, mapping, partner_map, uploaded_files,
                    df, resolved, missing_ids, save, df_ok, country_usage, writes, fn_vars, previous >>

\* Lines 420-429
NoUsableData ==
    /\ pc = "uploaded"
    /\ uploaded_files # << >>
    /\ parse_all(uploaded_files) = << >>
    /\ st_messages' = st_messages \cup { "No usable data found. Check sheet names/headers." }
    /\ pc' = "stopped"
    /\ UNCHANGED << runs, exists, net_file, pm_file, mapping, partner_map, uploaded_files,
                    df, resolved, missing_ids, save, df_ok, country_usage, writes, fn_vars, previous >>

\* Lines 420-440
ParseAndJoin ==
    /\ pc = "uploaded"
    /\ uploaded_files # << >>
    /\ parse_all(uploaded_files) # << >>
    /\ df' = left_join(parse_all(uploaded_files), mapping)
    /\ resolved' = 0
    /\ pc' = "resolve"
    /\ UNCHANGED << runs, exists, net_file, pm_file, mapping, partner_map, uploaded_files,
                    missing_ids, save, df_ok, country_usage, st_messages, writes, fn_vars, previous >>

\* A call of save_new_mappings_to_csv takes effect: the table in memory, the
\* file and the write log
CommitNetwork(r) ==
    /\ mapping' = r.ret
    /\ net_file' = IF r.to_csv = << >> THEN net_file ELSE r.to_csv[1]
    /\ writes' = writes \o MergeWrites("network", r)

\* The same for save_partner_mappings
CommitPartner(r) ==
    /\ partner_map' = r.ret
    /\ pm_file' = IF r.to_csv = << >> THEN pm_file ELSE r.to_csv[1]
    /\ writes' = writes \o MergeWrites("partner", r)

\* Lines 465-469, one row of df.apply
ResolveRow_CommitEachRow ==
    /\ pc = "resolve"
    /\ resolved < Len(df)
    /\ df' = [ df EXCEPT ![resolved + 1].Country_inferred =
                 resolve_row(df[resolved + 1], pm_dict_of(partner_map)).Country_inferred ]
    /\ CommitNetwork(save_new_mappings_to_csv(mapping,
           << [ Network_ID |-> df[resolved + 1].Network_ID,
                Country |-> resolve_row(df[resolved + 1],
                                        pm_dict_of(partner_map)).Country_inferred ] >>))
    /\ resolved' = resolved + 1
    /\ UNCHANGED << pc, runs, exists, pm_file, partner_map, uploaded_files,
                    missing_ids, save, df_ok, country_usage, st_messages, fn_vars, previous >>

ResolveRow ==
    /\ pc = "resolve"
    /\ resolved < Len(df)
    /\ df' = [ df EXCEPT ![resolved + 1].Country_inferred =
                 resolve_row(df[resolved + 1], pm_dict_of(partner_map)).Country_inferred ]
    /\ resolved' = resolved + 1
    /\ UNCHANGED << pc, runs, exists, net_file, pm_file, mapping, partner_map, uploaded_files,
                    missing_ids, save, df_ok, country_usage, st_messages, writes, fn_vars, previous >>

\* Lines 471-477
AutoSaveNetwork ==
    /\ pc = "resolve"
    /\ resolved = Len(df)
    /\ CommitNetwork(auto_save_network(mapping, df))
    /\ pc' = "autosave_partner"
    /\ UNCHANGED << runs, exists, pm_file, partner_map, uploaded_files, df, resolved,
                    missing_ids, save, df_ok, country_usage, st_messages, fn_vars, previous >>

\* Lines 479-489
AutoSavePartner ==
    /\ pc = "autosave_partner"
    /\ CommitPartner(auto_save_partner(partner_map, df))
    /\ pc' = "missing"
    /\ UNCHANGED << runs, exists, net_file, mapping, uploaded_files, df, resolved,
                    missing_ids, save, df_ok, country_usage, st_messages, fn_vars, previous >>

\* Lines 491-503
Missing ==
    /\ pc = "missing"
    /\ df' = [ i \in DOMAIN df |-> [ df[i] EXCEPT !.Country = df[i].Country_inferred ] ]
    /\ missing_ids' = missing_ids_of(df')
    /\ IF missing_ids' = << >>
       THEN pc' = "aggregate" /\ UNCHANGED st_messages
       ELSE pc' = "editor" /\ st_messages' = st_messages \cup { "Still missing" }
    /\ UNCHANGED << runs, exists, net_file, pm_file, mapping, partner_map, uploaded_files,
                    resolved, save, df_ok, country_usage, writes, fn_vars, previous >>

\* The editor's frame once the operator has typed 'typed' into it
Edited(typed) ==
    [ i \in DOMAIN missing_ids |->
        [ Network_ID |-> missing_ids[i].Network_ID,
          Partner_Name |-> missing_ids[i].Partner_Name,
          Country |-> typed[i] ] ]

\* Lines 522-525: the rows of the editor with a Network ID and a Country
to_save_of(edited) ==
    SelectSeq([ i \in DOMAIN edited |->
                  [ Network_ID |-> strip(astype_str(edited[i].Network_ID)),
                    Country |-> strip(astype_str(edited[i].Country)) ] ],
              LAMBDA r : r.Network_ID # << >> /\ r.Country # << >>)

\* Lines 532-535
p_save_of(edited) ==
    SelectSeq([ i \in DOMAIN edited |->
                  [ Partner_Name |-> strip(astype_str(edited[i].Partner_Name)),
                    Country |-> strip(astype_str(edited[i].Country)) ] ],
              LAMBDA r : r.Partner_Name # << >> /\ r.Country # << >>)

\* Lines 536-540
save_partner_if_filled(pm_df, p_save) ==
    IF p_save # << >> THEN save_partner_mappings(pm_df, drop_duplicates(p_save))
    ELSE unchanged(pm_df)

\* Lines 530-543: both tables merged and written, then st.rerun()
Saved(edited, r1, r2) ==
    /\ mapping' = r1.ret
    /\ net_file' = IF r1.to_csv = << >> THEN net_file ELSE r1.to_csv[1]
    /\ partner_map' = r2.ret
    /\ pm_file' = IF r2.to_csv = << >> THEN pm_file ELSE r2.to_csv[1]
    /\ writes' = writes \o MergeWrites("network", r1) \o MergeWrites("partner", r2)
    /\ save' = [ clicked |-> TRUE, edited |-> edited, error |-> FALSE,
                 to_csv |-> MergeWrites("network", r1) \o MergeWrites("partner", r2) ]
    /\ st_messages' = st_messages \cup { "Saved mapping(s). Refreshing" }
    /\ pc' = "load"
    /\ runs' = runs + 1

\* Lines 527-528: st.error, nothing written, the script goes on
Rejected(edited) ==
    /\ st_messages' = st_messages \cup { "Please fill at least one Country before saving." }
    /\ save' = [ clicked |-> TRUE, edited |-> edited, error |-> TRUE, to_csv |-> << >> ]
    /\ pc' = "aggregate"
    /\ UNCHANGED << runs, mapping, net_file, partner_map, pm_file, writes >>

Clicked_NoValidation(edited, to_save) ==
    Saved(edited, save_new_mappings_to_csv(mapping, to_save),
          save_partner_if_filled(partner_map, p_save_of(edited)))

Clicked(edited, to_save) ==
    IF to_save = << >> THEN Rejected(edited)
    ELSE Saved(edited, save_new_mappings_to_csv(mapping, to_save),
               save_partner_if_filled(partner_map, p_save_of(edited)))

\* Lines 521-543: "Save mappings" clicked
SaveMappings ==
    /\ pc = "editor"
    /\ runs < MaxRuns
    /\ \E typed \in [ DOMAIN missing_ids -> EditorCountries ] :
         Clicked(Edited(typed), to_save_of(Edited(typed)))
    /\ UNCHANGED << exists, uploaded_files, df, resolved, missing_ids, df_ok, country_usage,
                    fn_vars, previous >>

\* Line 521 with the button not clicked
NoSaveClick ==
    /\ pc = "editor"
    /\ pc' = "aggregate"
    /\ UNCHANGED << runs, exists, net_file, pm_file, mapping, partner_map, uploaded_files,
                    df, resolved, missing_ids, save, df_ok, country_usage, st_messages,
                    writes, fn_vars, previous >>

\* Lines 548-560
Aggregate ==
    /\ pc = "aggregate"
    /\ df_ok' = df_ok_of(df)
    /\ country_usage' = country_usage_of(df_ok_of(df))
    /\ pc' = "controls"
    /\ UNCHANGED << runs, exists, net_file, pm_file, mapping, partner_map, uploaded_files,
                    df, resolved, missing_ids, save, st_messages, writes, fn_vars, previous >>

\* Lines 565-568 with no year in country_usage
YearNotDetected ==
    /\ pc = "controls"
    /\ years_of(country_usage) = { }
    /\ st_messages' = st_messages \cup { "Year not detected from filenames." }
    /\ pc' = "stopped"
    /\ UNCHANGED << runs, exists, net_file, pm_file, mapping, partner_map, uploaded_files,
                    df, resolved, missing_ids, save, df_ok, country_usage, writes, fn_vars, previous >>

\* Lines 565-675 with a year to select: the charts are drawn
ShowCharts ==
    /\ pc = "controls"
    /\ years_of(country_usage) # { }
    /\ pc' = "done"
    /\ UNCHANGED << runs, exists, net_file, pm_file, mapping, partner_map, uploaded_files,
                    df, resolved, missing_ids, save, df_ok, country_usage, st_messages,
                    writes, fn_vars, previous >>

\* Any later interaction runs the script again from the top, same uploads
Rerun ==
    /\ pc \in { "done", "stopped" }
    /\ runs < MaxRuns
    /\ runs' = runs + 1
    /\ previous' = [ run |-> runs, Country |-> [ i \in DOMAIN df |-> df[i].Country ] ]
    /\ pc' = "load"
    /\ UNCHANGED << exists, net_file, pm_file, mapping, partner_map, uploaded_files,
                    df, resolved, missing_ids, save, df_ok, country_usage, st_messages,
                    writes, fn_vars >>

Next ==
    \/ Load
    \/ NoFiles
    \/ NoUsableData
    \/ ParseAndJoin
    \/ ResolveRow
    \/ AutoSaveNetwork
    \/ AutoSavePartner
    \/ Missing
    \/ SaveMappings
    \/ NoSaveClick
    \/ Aggregate
    \/ YearNotDetected
    \/ ShowCharts
    \/ Rerun

Spec == Init /\ [][Next]_vars

\* ------------------------------------------------------------------------
\* Properties of the script run
\* ------------------------------------------------------------------------

\* The countries typed into the editor are all empty after trimming
AllBlank(edited) == \A i \in DOMAIN edited : strip(astype_str(edited[i].Country)) = << >>

C6_YearNotDetectedOnlyWithoutYears ==
    "Year not detected from filenames." \in st_messages =>
        \A i \in DOMAIN df : df[i].Year = None_Year

\* The run has passed line 497: Country holds the resolved country
Surfaced == pc \in { "editor", "aggregate", "controls", "done" } \/ (pc = "stopped" /\ df # << >>)

\* The run has passed line 558
Aggregated == pc \in { "controls", "done" } \/ (pc = "stopped" /\ df # << >>)

Listed(r) ==
    \E m \in DOMAIN missing_ids :
        missing_ids[m] = [ Network_ID |-> r.Network_ID, Partner_Name |-> r.Partner_Name ]

\* C8 (as the code has it): every record whose resolved country is empty
\* stays in the joined frame and its {Network ID, Partner Name} pair is in
\* the list shown for manual correction, once each; the record set handed to
\* the aggregation is the joined frame without these records.
C8_UnresolvedListedNotAggregated ==
    /\ Surfaced =>
         /\ \A i \in DOMAIN df : df[i].Country = << >> => Listed(df[i])
         /\ \A m, n \in DOMAIN missing_ids : missing_ids[m] = missing_ids[n] => m = n
         /\ \A m \in DOMAIN missing_ids :
              \E i \in DOMAIN df :
                  /\ df[i].Country = << >>
                  /\ df[i].Network_ID = missing_ids[m].Network_ID
                  /\ df[i].Partner_Name = missing_ids[m].Partner_Name
    /\ Aggregated =>
         /\ \A j \in DOMAIN df_ok : df_ok[j].Country # << >>
         /\ \A i \in DOMAIN df :
              df[i].Country # << >> => \E j \in DOMAIN df_ok : df_ok[j] = df[i]

\* C8 witness: an aggregated batch with a resolved record and two
\* unresolved records of one network
C8_Witness ==
    /\ Aggregated
    /\ \E i, j, k \in DOMAIN df :
         /\ df[i].Country = << >> /\ df[j].Country = << >>
         /\ df[i].Network_ID = df[j].Network_ID
         /\ df[i].Partner_Name # df[j].Partner_Name
         /\ df[k].Country # << >>

\* C8 as stated: every record whose resolved country is empty is in the
\* record set handed on and its pair is in the list for manual correction.
C8_UnresolvedRetained ==
    Aggregated =>
        \A i \in DOMAIN df :
            df[i].Country = << >> =>
                /\ \E j \in DOMAIN df_ok : df_ok[j] = df[i]
                /\ Listed(df[i])

\* The auto-save of the network table has run and line 491 has not: Country
\* still holds the join's value
AfterAutoSaveNetwork == pc \in { "autosave_partner", "missing" }

EntriesFor(table, nid) == { m \in DOMAIN table : table[m].Network_ID = nid }

\* Two records of the batch with one Network ID that the network table
\* lacked, resolved to the same country
SameLearned(a, b) ==
    /\ a.Network_ID = b.Network_ID
    /\ a.Country = None /\ b.Country = None
    /\ a.Country_inferred # << >>
    /\ a.Country_inferred = b.Country_inferred

\* C9: when two records of one batch carry the same network id, absent from
\* the network table, and both resolve to the same country, the table in
\* memory and the file hold exactly one entry for that id after the
\* auto-save step.
C9_LearnedOnce ==
    AfterAutoSaveNetwork =>
        \A i, j \in DOMAIN df :
            i # j /\ SameLearned(df[i], df[j]) =>
                /\ Cardinality(EntriesFor(mapping, df[i].Network_ID)) = 1
                /\ Cardinality(EntriesFor(net_file, df[i].Network_ID)) = 1

\* C9 witness: the two records come from two different uploaded files
C9_Witness ==
    /\ AfterAutoSaveNetwork
    /\ \E i, j \in DOMAIN df :
         /\ df[i].SourceFile # df[j].SourceFile
         /\ SameLearned(df[i], df[j])
         /\ Cardinality(EntriesFor(mapping, df[i].Network_ID)) = 1

\* C10 (as the code has it): within one run every merge into a mapping file
\* is written after the country of every record of the batch has been
\* resolved, the network merge before the partner merge; the only earlier
\* write is the one at load, which creates a missing mapping file with no
\* entry.
C10_MergesAfterResolve ==
    \A i \in DOMAIN writes :
        /\ writes[i].op = "merge" =>
             /\ writes[i].rows > 0
             /\ writes[i].resolved = writes[i].rows
             /\ writes[i].at \in { "resolve", "autosave_partner", "editor" }
             /\ writes[i].table # << >>
        /\ writes[i].op = "create" => writes[i].at = "load" /\ writes[i].table = << >>
        /\ \A j \in DOMAIN writes :
             /\ writes[i].op = "merge" /\ writes[j].op = "create" => j < i
             /\ writes[i].at = "autosave_partner" /\ writes[j].at = "resolve" => j < i

\* C10 witness: a run that wrote a network merge and then a partner merge
C10_Witness ==
    \E i, j \in DOMAIN writes :
        /\ i < j
        /\ writes[i].op = "merge" /\ writes[i].path = "network"
        /\ writes[j].op = "merge" /\ writes[j].path = "partner"
        /\ writes[i].rows > 1

\* C10 as stated: no write to either mapping file happens before the country
\* of every record of the batch has been resolved.
C10_NoWriteBeforeResolved ==
    \A i \in DOMAIN writes :
        /\ writes[i].rows > 0
        /\ writes[i].resolved = writes[i].rows

\* The network file as the next load_mapping reads it holds an entry for nid
\* with a country
Learned(nid) ==
    \E m \in DOMAIN load_mapping(net_file) :
        /\ load_mapping(net_file)[m].Network_ID = nid
        /\ load_mapping(net_file)[m].Country # << >>

\* C11 as stated: after the auto-save step every network id that occurs in
\* the batch with a non-empty resolved country has an entry with a non-empty
\* country in the persisted network table, whatever the table held at load.
C11_ResolvedIdsLearned ==
    AfterAutoSaveNetwork =>
        \A i \in DOMAIN df : df[i].Country_inferred # << >> => Learned(df[i].Network_ID)

\* C11 witness of the failing case: the table held the id with an empty
\* country, the batch resolved it, and the file still has no country for it
C11_Witness ==
    /\ AfterAutoSaveNetwork
    /\ \E i \in DOMAIN df :
         /\ df[i].Country = << >>
         /\ df[i].Country_inferred # << >>
         /\ ~Learned(df[i].Network_ID)

\* This run ingests the batch of the run before it, with nothing saved by
\* hand in between, and has resolved every record
SecondIngestion == Surfaced /\ previous.run > 0 /\ runs = previous.run + 1

\* C12 as stated: when the same batch is ingested again against the tables
\* the run before persisted, every record gets the country it got before.
C12_SameCountryNextRun ==
    SecondIngestion =>
        /\ Len(df) = Len(previous.Country)
        /\ \A i \in DOMAIN df : df[i].Country = previous.Country[i]

\* C12 witness of the failing case: a record the run before left unresolved
\* now has a country, taken from another partner's record of the same
\* network id
C12_Witness ==
    /\ SecondIngestion
    /\ Len(df) = Len(previous.Country)
    /\ \E i, j \in DOMAIN df :
         /\ previous.Country[i] = << >>
         /\ df[i].Country # << >>
         /\ df[j].Network_ID = df[i].Network_ID
         /\ df[j].Partner_Name # df[i].Partner_Name
         /\ previous.Country[j] = df[i].Country

====
